---- MODULE Spec2Model ----
(***************************************************************************)
(* gpumon (src/main.cpp): a curses dashboard that polls the amdgpu sysfs   *)
(* attributes of card0 and draws them as bars.  The model follows main()   *)
(* statement by statement: option parsing, the all-rows-disabled check,    *)
(* signal installation, terminal set-up, the device constructor, and the   *)
(* render loop with its two signal flags.                                  *)
(*                                                                         *)
(* Strings are sequences of one-character strings.  A double is a record   *)
(* [n, d] denoting n/d; d = 0 denotes the IEEE results of a division by    *)
(* zero (n > 0: +Inf, n = 0: NaN, n < 0: -Inf).  unsigned long long is     *)
(* modelled as a 31-bit word (wrap-around at ULL_MAX + 1).                 *)
(***************************************************************************)
EXTENDS Integers, Sequences, FiniteSets, TLC

VARIABLES
    pc,            \* the statement of main() that runs next
    c,             \* main: int c, the last result of getopt_long
    optarg,        \* getopt's optarg
    nopts,         \* number of options getopt_long has returned so far
    sleep_time,    \* main: int sleep_time
    use_color,     \* color::use_color
    enabled_rows,  \* main: std::vector<bool> enabled_rows, indexed by info::
    should_close,  \* volatile sig_atomic_t should_close
    should_resize, \* volatile sig_atomic_t should_resize
    handlers,      \* TRUE once signal() installed signal_handler
    curses,        \* TRUE while the terminal is in curses mode
    endwins,       \* number of endwin() calls made
    exit_code,     \* "none" while running; "0", "1", "abort", "signal"
    fs,            \* the sysfs attribute files under the device path
    dev,           \* the calibration members of the device object
    tty_cols,      \* the terminal's real width (what TIOCGWINSZ reports)
    winsz,         \* handle_winch: winsize w (its ws_col)
    COLS,          \* the curses COLS
    labels,        \* the static labels on the screen: info:: index -> row
    bar_width,     \* main loop: int bar_width
    row,           \* main loop: int row
    k,             \* the info:: index of the row statement that runs next
    drawn,         \* the curses calls of the last row drawn
    key,           \* main loop: the last result of getch()
    intr,          \* the signals handled during the current getch() wait
    winch_since,   \* a SIGWINCH was handled since the last test of line 428
    winch_unseen   \* a SIGWINCH was handled since the last TIOCGWINSZ query

vars == << pc, c, optarg, nopts, sleep_time, use_color, enabled_rows,
           should_close, should_resize, handlers, curses, endwins, exit_code,
           fs, dev, tty_cols, winsz, COLS, labels, bar_width, row, k, drawn,
           key, intr, winch_since, winch_unseen >>

----------------------------------------------------------------------------
(* Program constants *)

end_of_transmission == 4
escape == 27
vpad == 1
hpad == 2
row_count == 12
text_len == 13 + hpad
ULL_MAX == 2147483647
INT_MIN == -2147483647
ERR == -1

(* Bounds of the model *)
MaxOpts == 2
MaxMainOpts == 1
MaxTokens == 2

----------------------------------------------------------------------------
(* Strings *)

S_busy        == << "b","u","s","y" >>
S_vram        == << "v","r","a","m" >>
S_gtt         == << "g","t","t" >>
S_cpu_vis     == << "c","p","u","_","v","i","s" >>
S_power       == << "p","o","w","e","r" >>
S_temperature == << "t","e","m","p","e","r","a","t","u","r","e" >>
S_fan         == << "f","a","n" >>
S_voltage     == << "v","o","l","t","a","g","e" >>
S_gfx_clock   == << "g","f","x","_","c","l","o","c","k" >>
S_mem_clock   == << "m","e","m","_","c","l","o","c","k" >>
S_link_speed  == << "l","i","n","k","_","s","p","e","e","d" >>
S_link_width  == << "l","i","n","k","_","w","i","d","t","h" >>

\* info::info_map: the canonical name of each enumerator, by its value.
info_map == [ i \in 0 .. (row_count - 1) |->
    CASE i = 0  -> S_busy
      [] i = 1  -> S_vram
      [] i = 2  -> S_gtt
      [] i = 3  -> S_cpu_vis
      [] i = 4  -> S_power
      [] i = 5  -> S_temperature
      [] i = 6  -> S_fan
      [] i = 7  -> S_voltage
      [] i = 8  -> S_gfx_clock
      [] i = 9  -> S_mem_clock
      [] i = 10 -> S_link_speed
      [] i = 11 -> S_link_width ]

Kinds == 0 .. (row_count - 1)

npos == -1

\* std::string_view::find(ch, from): the first position >= from (0-based).
Find(s, ch, from) ==
    LET hits == { i \in from .. (Len(s) - 1) : s[i + 1] = ch }
    IN  IF hits = {} THEN npos
        ELSE CHOOSE i \in hits : \A j \in hits : i <= j

\* std::string_view::substr(pos, n) and substr(pos).
SubstrN(s, pos, n) == SubSeq(s, pos + 1, pos + n)
SubstrFrom(s, pos) == SubSeq(s, pos + 1, Len(s))

DigitChars == << "0","1","2","3","4","5","6","7","8","9" >>
IsDigit(ch) == \E i \in 1 .. 10 : DigitChars[i] = ch
DigitVal(ch) == (CHOOSE i \in 1 .. 10 : DigitChars[i] = ch) - 1

\* std::to_string of an unsigned value.
RECURSIVE to_string(_)
to_string(n) ==
    IF n < 10 THEN << DigitChars[n + 1] >>
    ELSE to_string(n \div 10) \o << DigitChars[(n % 10) + 1] >>

\* The digits of s from position i (1-based) on: their value and the
\* position after the last digit.
RECURSIVE ScanDigits(_, _, _)
ScanDigits(s, i, acc) ==
    IF i <= Len(s) /\ IsDigit(s[i])
    THEN ScanDigits(s, i + 1, acc * 10 + DigitVal(s[i]))
    ELSE [val |-> acc, next |-> i]

RECURSIVE SkipSpace(_, _)
SkipSpace(s, i) ==
    IF i <= Len(s) /\ s[i] = " " THEN SkipSpace(s, i + 1) ELSE i

\* The common part of std::stoi, std::stoull and std::stod on decimal text:
\* leading blanks, an optional sign, digits; text after the digits is
\* ignored; no digit at all throws std::invalid_argument.
ParseNumber(s) ==
    LET i    == SkipSpace(s, 1)
        neg  == i <= Len(s) /\ s[i] = "-"
        j    == IF i <= Len(s) /\ s[i] \in {"-", "+"} THEN i + 1 ELSE i
        d    == ScanDigits(s, j, 0)
    IN  [ok |-> d.next > j, neg |-> neg, mag |-> d.val]

\* std::stoi
stoi(s) ==
    LET p == ParseNumber(s)
    IN  [ok |-> p.ok, val |-> IF p.neg THEN 0 - p.mag ELSE p.mag]

\* unsigned subtraction a - b on the modelled word
USub(a, b) == IF a >= b THEN a - b ELSE (ULL_MAX - (b - a)) + 1

\* std::stoull: a minus sign negates in the unsigned type
stoull(s) ==
    LET p == ParseNumber(s)
    IN  [ok |-> p.ok, val |-> IF p.neg THEN USub(0, p.mag) ELSE p.mag]

----------------------------------------------------------------------------
(* Doubles *)

RECURSIVE GCD(_, _)
GCD(a, b) == IF b = 0 THEN a ELSE GCD(b, a % b)

Abs(x) == IF x < 0 THEN 0 - x ELSE x

\* n / d in double arithmetic, d >= 0 (written in lowest terms)
FDiv(n, d) ==
    IF d = 0 THEN [n |-> IF n > 0 THEN 1 ELSE IF n < 0 THEN -1 ELSE 0, d |-> 0]
    ELSE LET g == GCD(Abs(n), d) IN [n |-> n \div g, d |-> d \div g]

IsNaN(x) == x.d = 0 /\ x.n = 0
FZero == [n |-> 0, d |-> 1]
FOne == [n |-> 1, d |-> 1]

\* x < y for doubles; every comparison with a NaN is false
FLess(x, y) ==
    /\ ~IsNaN(x)
    /\ ~IsNaN(y)
    /\ IF x.d = 0 THEN x.n < 0 /\ ~(y.d = 0 /\ y.n < 0)
       ELSE IF y.d = 0 THEN y.n > 0
       ELSE x.n * y.d < y.n * x.d

\* a clamp without its lower bound
clamp01_upper_only(x) == IF FLess(FOne, x) THEN FOne ELSE x

\* std::clamp(pc, 0.0, 1.0): (pc < lo) ? lo : (hi < pc) ? hi : pc
clamp01(x) == IF FLess(x, FZero) THEN FZero ELSE IF FLess(FOne, x) THEN FOne ELSE x

\* static_cast<int>(width * pc) for a clamped pc: truncation towards zero;
\* the conversion of a NaN is undefined and yields nan_int.
IntOfProduct(width, x, nan_int) ==
    IF IsNaN(x) THEN nan_int
    ELSE LET p == width * x.n
         IN  IF p >= 0 THEN p \div x.d ELSE 0 - ((0 - p) \div x.d)

\* What the conversion of a NaN to int yields: INT_MIN (x86), 0 (ARM).
NanCasts == {INT_MIN, 0}

----------------------------------------------------------------------------
(* The row registry *)

\* a lookup that yields index 0 for a name that is not in the map
disable_option_default_index(rows, option) ==
    IF \E i \in Kinds : info_map[i] = option
    THEN [rows EXCEPT ![CHOOSE i \in Kinds : info_map[i] = option] = FALSE]
    ELSE [rows EXCEPT ![0] = FALSE]

\* disable_option: enabled_rows[itr->second] = false when the name is found
disable_option(rows, option) ==
    IF \E i \in Kinds : info_map[i] = option
    THEN [rows EXCEPT ![CHOOSE i \in Kinds : info_map[i] = option] = FALSE]
    ELSE rows

\* disable_options, from the state (prev_idx) at the head of its while loop
RECURSIVE disable_options_from(_, _, _)
disable_options_from(rows, options, prev_idx) ==
    LET idx == Find(options, ",", prev_idx)
    IN  IF idx # npos
        THEN disable_options_from(
                 disable_option(rows, SubstrN(options, prev_idx, idx - prev_idx)),
                 options, idx + 1)
        ELSE disable_option(rows, SubstrFrom(options, prev_idx))

\* the loop without the statements after it: the last token is dropped
RECURSIVE disable_options_no_tail(_, _, _)
disable_options_no_tail(rows, options, prev_idx) ==
    LET idx == Find(options, ",", prev_idx)
    IN  IF idx # npos
        THEN disable_options_no_tail(
                 disable_option(rows, SubstrN(options, prev_idx, idx - prev_idx)),
                 options, idx + 1)
        ELSE rows

disable_options_drop_last(rows, options) == disable_options_no_tail(rows, options, 0)

disable_options(rows, options) == disable_options_from(rows, options, 0)

\* the predicate without its negation: true when every row is enabled
all_enabled(rows) == \A i \in Kinds : rows[i]

\* std::all_of(enabled_rows, [](auto b){return !b;})
all_disabled(rows) == \A i \in Kinds : ~rows[i]

\* draw_labels: the row each enabled kind's label is put on (0: no label)
RECURSIVE draw_labels_from(_, _, _, _)
draw_labels_from(rows, i, r, acc) ==
    IF i = row_count THEN acc
    ELSE IF rows[i]
         THEN draw_labels_from(rows, i + 1, r + 1, [acc EXCEPT ![i] = r + 1])
         ELSE draw_labels_from(rows, i + 1, r, acc)

NoLabels == [i \in Kinds |-> 0]

\* labels at fixed rows: kind i on row vpad + i, enabled or not the others
draw_labels_sparse(rows) == [i \in Kinds |-> IF rows[i] THEN vpad + i ELSE 0]

draw_labels(rows) == draw_labels_from(rows, 0, vpad - 1, NoLabels)

----------------------------------------------------------------------------
(* Drawing.  A row is recorded as the sequence of curses calls made for    *)
(* it: a cursor move, a clear to the end of the line, or a write of text   *)
(* with the attributes in force.                                           *)

Move(y, x) == [f |-> "move", y |-> y, x |-> x]
ClrToEol == [f |-> "clrtoeol"]
AddStr(s, color, bold) == [f |-> "addstr", s |-> s, color |-> color, bold |-> bold]

\* set_color / remove_color act only when color::use_color
Color(uc, color) == IF uc THEN color ELSE "none"

Repeat(ch, n) == [i \in 1 .. n |-> ch]

\* the bands with their upper limits included
bar_color_inclusive(x) ==
    IF ~IsNaN(x) /\ ~FLess([n |-> 33, d |-> 100], x) THEN "ok"
    ELSE IF ~IsNaN(x) /\ ~FLess([n |-> 67, d |-> 100], x) THEN "warn"
    ELSE "bad"

\* the colour band of draw_bar
bar_color(x) ==
    IF FLess(x, [n |-> 33, d |-> 100]) THEN "ok"
    ELSE IF FLess(x, [n |-> 67, d |-> 100]) THEN "warn"
    ELSE "bad"

\* draw_bar(row, col, width, pc, str); uc is color::use_color and nan_int
\* what the undefined conversion of a NaN yields
draw_bar(r, col, width, x, str, uc, nan_int) ==
    LET cx   == clamp01(x)
        w    == width - (2 + Len(str))
        bars == IntOfProduct(w, cx, nan_int)
        head == << Move(r, col), ClrToEol >>
    IN  IF bars < 0 THEN head
        ELSE head \o
             << AddStr(<< "[" >>, "none", TRUE),
                AddStr(Repeat("|", bars), Color(uc, bar_color(cx)), FALSE),
                Move(r, col + w + 1),
                AddStr(str, Color(uc, "value"), TRUE),
                AddStr(<< "]" >>, "none", TRUE) >>

\* the plain rows of the loop: move, clrtoeol, print_string(label, s, A_BOLD)
draw_value(r, col, str, uc) ==
    << Move(r, col), ClrToEol, AddStr(str, Color(uc, "label"), TRUE) >>

----------------------------------------------------------------------------
(* The device *)

\* the content of an attribute file that cannot be opened
Missing == << "missing" >>

\* device::read_file: "0" when the file is not open, else its first line
read_file(content) == IF content = Missing THEN << "0" >> ELSE content

MiB == 1024 * 1024

\* "/<total MiB>MiB" as the constructor builds m_vram_str, m_gtt_str, ...
total_str(m) == << "/" >> \o to_string(m \div MiB) \o << "M","i","B" >>

CalibFiles == { "mem_info_vram_total", "mem_info_gtt_total",
                "mem_info_vis_vram_total", "power1_cap_min", "power1_cap_max",
                "temp1_crit", "fan1_min", "fan1_max" }

\* device::device: whether every std::stoull of the constructor succeeds
device_ok(f) == \A p \in CalibFiles : stoull(read_file(f[p])).ok

\* device::device: the members it sets
device(f) ==
    [ m_vram      |-> stoull(read_file(f["mem_info_vram_total"])).val,
      m_gtt       |-> stoull(read_file(f["mem_info_gtt_total"])).val,
      m_vis_vram  |-> stoull(read_file(f["mem_info_vis_vram_total"])).val,
      m_power_min |-> stoull(read_file(f["power1_cap_min"])).val,
      m_power_max |-> stoull(read_file(f["power1_cap_max"])).val,
      m_temp_crit |-> stoull(read_file(f["temp1_crit"])).val,
      m_fan_min   |-> stoull(read_file(f["fan1_min"])).val,
      m_fan_max   |-> stoull(read_file(f["fan1_max"])).val ]

NoDevice == [ m_vram |-> 0, m_gtt |-> 0, m_vis_vram |-> 0, m_power_min |-> 0,
              m_power_max |-> 0, m_temp_crit |-> 0, m_fan_min |-> 0,
              m_fan_max |-> 0 ]

\* A sample: ok is FALSE when the fetch throws (std::invalid_argument)
Sample(ok, text, frac) == [ok |-> ok, text |-> text, frac |-> frac]

\* device::busy: stod(pc) * 0.01
busy(content) ==
    LET pcs == read_file(content)
        v   == stoi(pcs)
    IN  Sample(v.ok, pcs \o << "%" >>, FDiv(v.val, 100))

\* device::vram, device::gtt, device::vis_vram (total: the calibrated total)
mem_used(content, total) ==
    LET u == stoull(read_file(content))
    IN  Sample(u.ok, to_string(u.val \div MiB) \o total_str(total),
               FDiv(u.val, total))

vram(content, d) == mem_used(content, d.m_vram)
gtt(content, d) == mem_used(content, d.m_gtt)
vis_vram(content, d) == mem_used(content, d.m_vis_vram)

\* device::power: both subtractions are unsigned
power(content, d) ==
    LET p     == stoull(read_file(content))
        range == USub(d.m_power_max, d.m_power_min)
    IN  Sample(p.ok, to_string(p.val \div 1000000) \o << "W" >>,
               FDiv(USub(p.val, d.m_power_min), range))

\* device::temperature
temperature(content, d) ==
    LET t == stoull(read_file(content))
    IN  Sample(t.ok, to_string(t.val \div 1000) \o << "C" >>,
               FDiv(t.val, d.m_temp_crit))

\* device::fan: the range is unsigned, the numerator a double
fan(content, d) ==
    LET f     == read_file(content)
        v     == stoi(f)
        range == USub(d.m_fan_max, d.m_fan_min)
    IN  Sample(v.ok, f \o << "R","P","M" >>, FDiv(v.val - d.m_fan_min, range))

\* device::voltage
voltage(content) == Sample(TRUE, read_file(content) \o << "m","V" >>, FZero)

\* device::gfx_clock, device::mem_clock
clock(content) ==
    LET f == stoull(read_file(content))
    IN  Sample(f.ok, to_string(f.val \div 1000000) \o << "M","H","z" >>, FZero)

\* device::link_speed
link_speed(content) == Sample(TRUE, read_file(content), FZero)

\* device::link_width
link_width(content) == Sample(TRUE, << "x" >> \o read_file(content), FZero)

----------------------------------------------------------------------------
(* Inputs *)

RECURSIVE Join(_)
\* the tokens of ts separated by commas
Join(ts) ==
    IF Len(ts) = 1 THEN ts[1] ELSE ts[1] \o << "," >> \o Join(Tail(ts))

AllNames ==
    Join([i \in 1 .. row_count |-> info_map[i - 1]])

\* tokens of -d arguments: names, the empty token, a prefix of a name, a
\* name in the wrong case
Tokens == { S_busy, S_fan, << >>, << "f","a" >>, << "B","u","s","y" >> }

\* the -d arguments of the option-parsing specification
ArgCsvs ==
    { Join(ts) : ts \in UNION { [1 .. m -> Tokens] : m \in 1 .. MaxTokens } }
    \cup { info_map[i] : i \in Kinds }
    \cup { AllNames }

\* the -d arguments of the whole-program specification
MainCsvs == { Join(<< S_busy, S_fan >>), Join(<< S_fan, << >> >>), << >>, AllNames }

\* the -u arguments
UpdateArgs == { << "2" >>, << "0" >>, << "-","1" >>, << "x" >> }

Options(csvs) ==
    { [c |-> o, arg |-> << >>] : o \in {"h", "n", "?"} }
    \cup { [c |-> "u", arg |-> a] : a \in UpdateArgs }
    \cup { [c |-> "d", arg |-> a] : a \in csvs }

\* the calibration files of a card, of no card at all, and of a card whose
\* temp1_crit reads as an empty line
FsTypical ==
    [ p \in CalibFiles |->
        CASE p = "mem_info_vram_total"     -> to_string(4 * MiB)
          [] p = "mem_info_gtt_total"      -> to_string(2 * MiB)
          [] p = "mem_info_vis_vram_total" -> to_string(MiB)
          [] p = "power1_cap_min"          -> to_string(1000000)
          [] p = "power1_cap_max"          -> to_string(5000000)
          [] p = "temp1_crit"              -> to_string(90000)
          [] p = "fan1_min"                -> to_string(0)
          [] p = "fan1_max"                -> to_string(3000) ]
FsMissing == [ p \in CalibFiles |-> Missing ]
FsBadCalib == [ FsTypical EXCEPT !["temp1_crit"] = << >> ]
\* a card with 1024 MiB of vram, a power cap of 0 .. 100 W and a fan that
\* does not turn below 2000 RPM
FsLarge ==
    [ FsTypical EXCEPT !["mem_info_vram_total"] = to_string(1024 * MiB),
                       !["power1_cap_min"] = to_string(0),
                       !["power1_cap_max"] = to_string(100000000),
                       !["fan1_min"] = to_string(2000) ]
FileSystems == { FsTypical, FsMissing, FsBadCalib, FsLarge }

\* what the files read in each tick can hold
LiveBusy == { << "0" >>, << "5","0" >>, << >> }
LiveMem == { to_string(MiB), to_string(512 * MiB), << "N","/","A" >> }
LivePower == { to_string(3000000), to_string(500000), to_string(33000000), << >> }
LiveTemp == { to_string(45000), Missing, << >> }
LiveFan == { to_string(1500), << >> }
LiveText == { << "9","0","0" >>, Missing }
LiveClock == { to_string(300000000), << >> }

TtyCols == { 18, 40 }
Keys == { 113, end_of_transmission, escape, 97 }
Signals == { "SIGINT", "SIGTERM", "SIGWINCH" }

NoDraw == [kind |-> -1, row |-> 0, width |-> 0, frac |-> FZero, str |-> << >>,
           calls |-> << >>]

----------------------------------------------------------------------------
(* main() *)

cfg_vars == << c, optarg, nopts, sleep_time, use_color, enabled_rows >>
sig_vars == << should_close, should_resize, intr, winch_since, winch_unseen >>
scr_vars == << curses, endwins, COLS, labels, drawn >>
loop_vars == << bar_width, row, k, key, winsz >>
env_vars == << fs, tty_cols, dev, handlers >>

Init ==
    /\ pc = "getopt"
    /\ c = "none"
    /\ optarg = << >>
    /\ nopts = 0
    /\ sleep_time = 2
    /\ use_color = TRUE
    /\ enabled_rows = [i \in Kinds |-> TRUE]
    /\ should_close = 0
    /\ should_resize = 0
    /\ handlers = FALSE
    /\ curses = FALSE
    /\ endwins = 0
    /\ exit_code = "none"
    /\ fs \in FileSystems
    /\ dev = NoDevice
    /\ tty_cols \in TtyCols
    /\ winsz = 0
    /\ COLS = 0
    /\ labels = NoLabels
    /\ bar_width = 0
    /\ row = 0
    /\ k = 0
    /\ drawn = NoDraw
    /\ key = ERR
    /\ intr = {}
    /\ winch_since = FALSE
    /\ winch_unseen = FALSE

\* the process ends with this exit status; nothing else changes
Exit(code) ==
    /\ pc' = "exited"
    /\ exit_code' = code

\* line 373: getopt_long returns the next option, or -1 after the last
\* (the command line holds at most max options)
GetOpt(csvs, max) ==
    /\ pc = "getopt"
    /\ \/ /\ nopts < max
          /\ \E o \in Options(csvs) :
                /\ c' = o.c
                /\ optarg' = o.arg
          /\ nopts' = nopts + 1
          /\ pc' = "switch"
       \/ /\ c' = "-1"
          /\ pc' = "all_of"
          /\ UNCHANGED << optarg, nopts >>
    /\ UNCHANGED << sleep_time, use_color, enabled_rows, exit_code >>
    /\ UNCHANGED << sig_vars, scr_vars, loop_vars, env_vars >>

\* lines 375-377: case 'h'
SwitchHelp ==
    /\ pc = "switch" /\ c = "h"
    /\ Exit("0")
    /\ UNCHANGED << cfg_vars, sig_vars, scr_vars, loop_vars, env_vars >>

\* lines 378-380: case 'n'
SwitchNoColor ==
    /\ pc = "switch" /\ c = "n"
    /\ use_color' = FALSE
    /\ pc' = "getopt"
    /\ UNCHANGED << c, optarg, nopts, sleep_time, enabled_rows, exit_code >>
    /\ UNCHANGED << sig_vars, scr_vars, loop_vars, env_vars >>

\* lines 381-383: case 'u'; std::stoi throws on text that is no number
SwitchUpdate ==
    /\ pc = "switch" /\ c = "u"
    /\ IF stoi(optarg).ok
       THEN /\ sleep_time' = stoi(optarg).val
            /\ pc' = "getopt"
            /\ UNCHANGED exit_code
       ELSE /\ Exit("abort")
            /\ UNCHANGED sleep_time
    /\ UNCHANGED << c, optarg, nopts, use_color, enabled_rows >>
    /\ UNCHANGED << sig_vars, scr_vars, loop_vars, env_vars >>

\* lines 384-386: case 'd'
SwitchDisable ==
    /\ pc = "switch" /\ c = "d"
    /\ enabled_rows' = disable_options(enabled_rows, optarg)
    /\ pc' = "getopt"
    /\ UNCHANGED << c, optarg, nopts, sleep_time, use_color, exit_code >>
    /\ UNCHANGED << sig_vars, scr_vars, loop_vars, env_vars >>

\* lines 387-388: default
SwitchDefault ==
    /\ pc = "switch" /\ c = "?"
    /\ Exit("1")
    /\ UNCHANGED << cfg_vars, sig_vars, scr_vars, loop_vars, env_vars >>

\* lines 392-395: nothing to show
AllOf ==
    /\ pc = "all_of"
    /\ IF all_disabled(enabled_rows)
       THEN Exit("0")
       ELSE pc' = "signal" /\ UNCHANGED exit_code
    /\ UNCHANGED << cfg_vars, sig_vars, scr_vars, loop_vars, env_vars >>

\* lines 397-399: signal(SIGINT / SIGTERM / SIGWINCH, signal_handler)
InstallHandlers ==
    /\ pc = "signal"
    /\ handlers' = TRUE
    /\ pc' = "initscr"
    /\ UNCHANGED << cfg_vars, sig_vars, scr_vars, loop_vars, exit_code >>
    /\ UNCHANGED << fs, tty_cols, dev >>

\* lines 401-423: initscr() ... draw_labels(enabled_rows)
Setup ==
    /\ pc = "initscr"
    /\ curses' = TRUE
    /\ COLS' = tty_cols
    /\ \E has_colors \in BOOLEAN : use_color' = (use_color /\ has_colors)
    /\ labels' = draw_labels(enabled_rows)
    /\ drawn' = NoDraw
    /\ pc' = "device"
    /\ UNCHANGED << c, optarg, nopts, sleep_time, enabled_rows, endwins >>
    /\ UNCHANGED << sig_vars, loop_vars, env_vars, exit_code >>

\* line 425: const device dev(...); an exception of std::stoull leaves main
\* uncaught and the process aborts
Device ==
    /\ pc = "device"
    /\ IF device_ok(fs)
       THEN /\ dev' = device(fs)
            /\ pc' = "while"
            /\ UNCHANGED exit_code
       ELSE /\ Exit("abort")
            /\ UNCHANGED dev
    /\ UNCHANGED << cfg_vars, sig_vars, scr_vars, loop_vars >>
    /\ UNCHANGED << fs, tty_cols, handlers >>

----------------------------------------------------------------------------
(* The render loop *)

\* a loop head that does not test should_close
While_forever ==
    /\ pc = "while"
    /\ pc' = "if_resize"
    /\ UNCHANGED << cfg_vars, sig_vars, scr_vars, loop_vars, env_vars, exit_code >>

\* a loop head that tests and clears should_close
While_clearing ==
    /\ pc = "while"
    /\ pc' = IF should_close # 0 THEN "endwin" ELSE "if_resize"
    /\ should_close' = 0
    /\ UNCHANGED << should_resize, intr, winch_since, winch_unseen >>
    /\ UNCHANGED << cfg_vars, scr_vars, loop_vars, env_vars, exit_code >>

\* line 427: while (!should_close)
While ==
    /\ pc = "while"
    /\ pc' = IF should_close # 0 THEN "endwin" ELSE "if_resize"
    /\ UNCHANGED << cfg_vars, sig_vars, scr_vars, loop_vars, env_vars, exit_code >>

\* line 428: if (should_resize)
IfResize ==
    /\ pc = "if_resize"
    /\ pc' = IF should_resize # 0 THEN "ioctl" ELSE "bar_width"
    /\ winch_since' = FALSE
    /\ UNCHANGED << should_close, should_resize, intr, winch_unseen >>
    /\ UNCHANGED << cfg_vars, scr_vars, loop_vars, env_vars, exit_code >>

\* line 336, handle_winch: ioctl(0, TIOCGWINSZ, &w)
WinchIoctl ==
    /\ pc = "ioctl"
    /\ winsz' = tty_cols
    /\ winch_unseen' = FALSE
    /\ pc' = "resizeterm"
    /\ UNCHANGED << bar_width, row, k, key >>
    /\ UNCHANGED << should_close, should_resize, intr, winch_since >>
    /\ UNCHANGED << cfg_vars, scr_vars, env_vars, exit_code >>

\* line 337, handle_winch: resizeterm(w.ws_row, w.ws_col)
WinchResizeTerm ==
    /\ pc = "resizeterm"
    /\ COLS' = winsz
    /\ pc' = "clear"
    /\ UNCHANGED << curses, endwins, labels, drawn >>
    /\ UNCHANGED << cfg_vars, sig_vars, loop_vars, env_vars, exit_code >>

\* line 338, handle_winch: clear()
WinchClear ==
    /\ pc = "clear"
    /\ labels' = NoLabels
    /\ drawn' = NoDraw
    /\ pc' = "draw_labels"
    /\ UNCHANGED << curses, endwins, COLS >>
    /\ UNCHANGED << cfg_vars, sig_vars, loop_vars, env_vars, exit_code >>

\* lines 339-340, handle_winch: draw_labels(enabled_rows), and the return
WinchLabels ==
    /\ pc = "draw_labels"
    /\ labels' = draw_labels(enabled_rows)
    /\ winsz' = 0
    /\ pc' = "clear_flag"
    /\ UNCHANGED << curses, endwins, COLS, drawn >>
    /\ UNCHANGED << bar_width, row, k, key >>
    /\ UNCHANGED << cfg_vars, sig_vars, env_vars, exit_code >>

\* line 430: should_resize = 0
ClearResize ==
    /\ pc = "clear_flag"
    /\ should_resize' = 0
    /\ pc' = "bar_width"
    /\ UNCHANGED << should_close, intr, winch_since, winch_unseen >>
    /\ UNCHANGED << cfg_vars, scr_vars, loop_vars, env_vars, exit_code >>

\* lines 433-434: int bar_width = COLS - text_len - hpad; int row = vpad-1
BarWidth ==
    /\ pc = "bar_width"
    /\ bar_width' = COLS - text_len - hpad
    /\ row' = vpad - 1
    /\ k' = 0
    /\ pc' = "row"
    /\ UNCHANGED << key, winsz >>
    /\ UNCHANGED << cfg_vars, sig_vars, scr_vars, env_vars, exit_code >>

\* a tick that is given up after a row once should_close is set
AfterRow_preempted(i) ==
    /\ k' = i + 1
    /\ pc' = IF should_close # 0 THEN "while"
             ELSE IF i + 1 = row_count THEN "refresh" ELSE "row"

\* the statement after the one of kind i
AfterRow(i) ==
    /\ k' = i + 1
    /\ pc' = IF i + 1 = row_count THEN "refresh" ELSE "row"

\* one "if (enabled_rows[info::i]) { fetch; draw_bar(++row, ...) }"
BarRow(i, sample) ==
    /\ pc = "row" /\ k = i
    /\ IF ~enabled_rows[i]
       THEN AfterRow(i) /\ UNCHANGED << row, drawn, exit_code >>
       ELSE IF ~sample.ok
       THEN Exit("abort") /\ UNCHANGED << row, drawn, k >>
       ELSE /\ AfterRow(i)
            /\ row' = row + 1
            /\ \E nan_int \in NanCasts :
                  drawn' = [kind |-> i, row |-> row + 1, width |-> bar_width,
                            frac |-> sample.frac, str |-> sample.text,
                            calls |-> draw_bar(row + 1, text_len, bar_width,
                                               sample.frac, sample.text,
                                               use_color, nan_int)]
            /\ UNCHANGED exit_code
    /\ UNCHANGED << bar_width, key, winsz, curses, endwins, COLS, labels >>
    /\ UNCHANGED << cfg_vars, sig_vars, env_vars >>

\* one "if (enabled_rows[info::i]) { move(++row, text_len); clrtoeol();
\* print_string(color::type::label, <text>, A_BOLD); }"
ValueRow(i, sample) ==
    /\ pc = "row" /\ k = i
    /\ IF ~enabled_rows[i]
       THEN AfterRow(i) /\ UNCHANGED << row, drawn, exit_code >>
       ELSE IF ~sample.ok
       THEN Exit("abort") /\ UNCHANGED << row, drawn, k >>
       ELSE /\ AfterRow(i)
            /\ row' = row + 1
            /\ drawn' = [kind |-> i, row |-> row + 1, width |-> 0,
                         frac |-> FZero, str |-> sample.text,
                         calls |-> draw_value(row + 1, text_len, sample.text,
                                              use_color)]
            /\ UNCHANGED exit_code
    /\ UNCHANGED << bar_width, key, winsz, curses, endwins, COLS, labels >>
    /\ UNCHANGED << cfg_vars, sig_vars, env_vars >>

\* lines 436-499
RowBusy == \E f \in LiveBusy : BarRow(0, busy(f))
RowVram == \E f \in LiveMem : BarRow(1, vram(f, dev))
RowGtt == \E f \in LiveMem : BarRow(2, gtt(f, dev))
RowCpuVis == \E f \in LiveMem : BarRow(3, vis_vram(f, dev))
RowPower == \E f \in LivePower : BarRow(4, power(f, dev))
RowTemperature == \E f \in LiveTemp : BarRow(5, temperature(f, dev))
RowFan == \E f \in LiveFan : BarRow(6, fan(f, dev))
RowVoltage == \E f \in LiveText : ValueRow(7, voltage(f))
RowGfxClock == \E f \in LiveClock : ValueRow(8, clock(f))
RowMemClock == \E f \in LiveClock : ValueRow(9, clock(f))
RowLinkSpeed == \E f \in LiveText : ValueRow(10, link_speed(f))
RowLinkWidth == \E f \in LiveText : ValueRow(11, link_width(f))

\* line 501: refresh(); the loop then enters getch()
Refresh ==
    /\ pc = "refresh"
    /\ pc' = "getch"
    /\ intr' = {}
    /\ UNCHANGED << should_close, should_resize, winch_since, winch_unseen >>
    /\ UNCHANGED << cfg_vars, scr_vars, loop_vars, env_vars, exit_code >>

\* line 503: getch() returns a key that was typed
GetchKey ==
    /\ pc = "getch"
    /\ \E ch \in Keys : key' = ch
    /\ pc' = "key"
    /\ UNCHANGED << bar_width, row, k, winsz >>
    /\ UNCHANGED << cfg_vars, sig_vars, scr_vars, env_vars, exit_code >>

\* line 503: getch() returns ERR after timeout(sleep_time*1000); a negative
\* delay makes the read block
GetchTimeout ==
    /\ pc = "getch"
    /\ sleep_time * 1000 >= 0
    /\ key' = ERR
    /\ pc' = "key"
    /\ UNCHANGED << bar_width, row, k, winsz >>
    /\ UNCHANGED << cfg_vars, sig_vars, scr_vars, env_vars, exit_code >>

\* line 503: getch() returns ERR because a handled signal interrupted the
\* wait (whether it does is up to the system: signal() may restart the read)
GetchInterrupted ==
    /\ pc = "getch"
    /\ intr # {}
    /\ key' = ERR
    /\ pc' = "key"
    /\ UNCHANGED << bar_width, row, k, winsz >>
    /\ UNCHANGED << cfg_vars, sig_vars, scr_vars, env_vars, exit_code >>

\* a key test that breaks on every key typed
KeyCheck_any_key ==
    /\ pc = "key"
    /\ pc' = IF key # ERR THEN "endwin" ELSE "while"
    /\ key' = ERR
    /\ UNCHANGED << bar_width, row, k, winsz >>
    /\ UNCHANGED << cfg_vars, sig_vars, scr_vars, env_vars, exit_code >>

\* lines 504-507: the quit keys break; key goes out of scope
KeyCheck ==
    /\ pc = "key"
    /\ pc' = IF key = 113 \/ key = end_of_transmission \/ key = escape
             THEN "endwin" ELSE "while"
    /\ key' = ERR
    /\ UNCHANGED << bar_width, row, k, winsz >>
    /\ UNCHANGED << cfg_vars, sig_vars, scr_vars, env_vars, exit_code >>

\* lines 509-511: endwin(); return EXIT_SUCCESS
EndWin ==
    /\ pc = "endwin"
    /\ curses' = FALSE
    /\ endwins' = endwins + 1
    /\ Exit("0")
    /\ UNCHANGED << COLS, labels, drawn >>
    /\ UNCHANGED << cfg_vars, sig_vars, loop_vars, env_vars >>

----------------------------------------------------------------------------
(* Signals and the terminal *)

\* the switch without its first break: SIGINT and SIGTERM fall through
signal_handler_fallthrough(sig, flags) ==
    CASE sig \in {"SIGINT", "SIGTERM"} ->
             [flags EXCEPT !.should_close = 1, !.should_resize = 1]
      [] sig = "SIGWINCH"              -> [flags EXCEPT !.should_resize = 1]
      [] OTHER                         -> flags

\* signal_handler(sig): the flags after it ran
signal_handler(sig, flags) ==
    CASE sig \in {"SIGINT", "SIGTERM"} -> [flags EXCEPT !.should_close = 1]
      [] sig = "SIGWINCH"              -> [flags EXCEPT !.should_resize = 1]
      [] OTHER                         -> flags

Flags == [should_close |-> should_close, should_resize |-> should_resize]

\* the handler runs between two statements of main
Handle(sig) ==
    /\ should_close' = signal_handler(sig, Flags).should_close
    /\ should_resize' = signal_handler(sig, Flags).should_resize
    /\ intr' = IF pc = "getch" THEN intr \cup {sig} ELSE intr
    /\ winch_since' = (winch_since \/ sig = "SIGWINCH")
    /\ winch_unseen' = (winch_unseen \/ sig = "SIGWINCH")

\* a signal is delivered while signal_handler is installed
Deliver(sig) ==
    /\ handlers
    /\ pc # "exited"
    /\ Handle(sig)
    /\ UNCHANGED << pc, exit_code >>
    /\ UNCHANGED << cfg_vars, scr_vars, loop_vars, env_vars >>

Signal == \E sig \in Signals : Deliver(sig)

\* SIGINT or SIGTERM before line 397: the default action ends the process
DefaultSignal ==
    /\ ~handlers
    /\ pc # "exited"
    /\ Exit("signal")
    /\ UNCHANGED << cfg_vars, sig_vars, scr_vars, loop_vars, env_vars >>

\* the terminal is resized; the system sends SIGWINCH, ignored by default
TtyResize ==
    /\ pc # "exited"
    /\ \E w \in TtyCols \ {tty_cols} : tty_cols' = w
    /\ IF handlers THEN Handle("SIGWINCH") ELSE UNCHANGED sig_vars
    /\ UNCHANGED << pc, exit_code, fs, dev, handlers >>
    /\ UNCHANGED << cfg_vars, scr_vars, loop_vars >>

----------------------------------------------------------------------------
(* Specifications *)

Startup(csvs, max) ==
    \/ GetOpt(csvs, max)
    \/ SwitchHelp
    \/ SwitchNoColor
    \/ SwitchUpdate
    \/ SwitchDisable
    \/ SwitchDefault
    \/ AllOf

Loop ==
    \/ While \/ IfResize
    \/ WinchIoctl \/ WinchResizeTerm \/ WinchClear \/ WinchLabels
    \/ ClearResize \/ BarWidth
    \/ RowBusy \/ RowVram \/ RowGtt \/ RowCpuVis \/ RowPower
    \/ RowTemperature \/ RowFan \/ RowVoltage \/ RowGfxClock
    \/ RowMemClock \/ RowLinkSpeed \/ RowLinkWidth
    \/ Refresh \/ GetchKey \/ GetchTimeout \/ GetchInterrupted
    \/ KeyCheck \/ EndWin

Main == Startup(MainCsvs, MaxMainOpts) \/ InstallHandlers \/ Setup \/ Device \/ Loop

Next == Main \/ Signal \/ DefaultSignal \/ TtyResize

Spec == Init /\ [][Next]_vars

\* the program while no signal is delivered and the terminal keeps its size
Tick ==
    \/ While \/ IfResize \/ BarWidth
    \/ RowBusy \/ RowVram \/ RowGtt \/ RowCpuVis \/ RowPower
    \/ RowTemperature \/ RowFan \/ RowVoltage \/ RowGfxClock
    \/ RowMemClock \/ RowLinkSpeed \/ RowLinkWidth
    \/ Refresh \/ GetchKey \/ GetchTimeout \/ KeyCheck \/ EndWin

NextQuiet == Startup(MainCsvs, MaxMainOpts) \/ InstallHandlers \/ Setup \/ Device \/ Tick

SpecQuiet == Init /\ [][NextQuiet]_vars

\* option parsing alone, over the larger set of -d arguments
NextArgs == Startup(ArgCsvs, MaxOpts)

SpecArgs == Init /\ [][NextArgs]_vars

----------------------------------------------------------------------------
(* The registry claims, checked under SpecArgs *)

Fresh == \A i \in Kinds : enabled_rows[i]

\* the tokens of csv: the comma-free pieces between two neighbouring
\* separators, the start and the end of csv counting as separators
CsvTokens(csv) ==
    LET seps == {0, Len(csv) + 1} \cup { i \in 1 .. Len(csv) : csv[i] = "," }
        gaps == { p \in seps \X seps :
                    /\ p[1] < p[2]
                    /\ \A m \in seps : ~(p[1] < m /\ m < p[2]) }
    IN  { SubSeq(csv, p[1] + 1, p[2] - 1) : p \in gaps }

CanonicalNames == { info_map[i] : i \in Kinds }

BusyFan == Join(<< S_busy, S_fan >>)

\* C7: disable_options on a fresh registry disables a kind if and only if
\* its canonical name is one of the comma-separated tokens of the argument,
\* the token after the last comma included; "busy,fan" leaves exactly 10 of
\* the 12 kinds enabled, busy and fan being the two disabled.
C7_DisableListExact ==
    [][ (SwitchDisable /\ Fresh) =>
          /\ \A i \in Kinds :
                (~enabled_rows'[i]) <=> (info_map[i] \in CsvTokens(optarg))
          /\ (optarg = BusyFan) =>
                /\ Cardinality({ i \in Kinds : enabled_rows'[i] }) = 10
                /\ ~enabled_rows'[0]
                /\ ~enabled_rows'[6] ]_vars

C7_Witness ==
    /\ pc = "getopt" /\ c = "d" /\ nopts = 1
    /\ optarg = BusyFan
    /\ { i \in Kinds : ~enabled_rows[i] } = {0, 6}

\* C8: a token that is no canonical name (the empty token included) changes
\* no flag and raises no error; no flag ever goes from false to true and the
\* registry keeps its 12 entries.
C8_UnknownIgnoredMonotone ==
    [][ /\ \A i \in Kinds : enabled_rows'[i] => enabled_rows[i]
        /\ DOMAIN enabled_rows' = Kinds
        /\ Cardinality(DOMAIN enabled_rows') = 12
        /\ (SwitchDisable /\ CsvTokens(optarg) \cap CanonicalNames = {}) =>
              /\ enabled_rows' = enabled_rows
              /\ exit_code' = "none"
              /\ pc' = "getopt" ]_vars

C8_Witness ==
    /\ pc = "getopt" /\ c = "d" /\ nopts = 2
    /\ optarg = Join(<< << >>, << >> >>)
    /\ { i \in Kinds : ~enabled_rows[i] } = {6}

----------------------------------------------------------------------------
(* The loop claims, checked under Spec *)

\* the terminate flag is set and main is in the wait, at the test of the
\* key, at the loop head, at endwin(), or has returned from main
Closing ==
    /\ should_close = 1
    /\ \/ pc \in {"getch", "key", "while", "endwin"}
       \/ pc = "exited" /\ exit_code = "0"

C2_RestoredOnEveryExit == (pc = "exited") => ~curses

AllOff == \A i \in Kinds : enabled_rows[i] = FALSE

\* C3: when every flag is false after option parsing the program exits
\* with status 0 and never installs the handlers, enters curses mode or
\* draws; so wherever the handlers are installed, the terminal was set up
\* or main is past the check, some kind is enabled; and no statement after
\* option parsing changes the registry.
C3_NoLoopWhenAllDisabled ==
    /\ []( ( \/ handlers \/ curses \/ endwins > 0
             \/ labels # NoLabels \/ drawn # NoDraw
             \/ pc \notin {"getopt", "switch", "all_of", "exited"} )
           => ~AllOff )
    /\ [][ (pc = "all_of" /\ AllOff /\ pc' # pc /\ exit_code' # "signal") =>
              /\ pc' = "exited" /\ exit_code' = "0"
              /\ ~handlers' /\ ~curses' /\ endwins' = 0
              /\ labels' = NoLabels /\ drawn' = NoDraw ]_vars
    /\ [][ (pc \notin {"getopt", "switch"}) => enabled_rows' = enabled_rows ]_vars

C3_Witness ==
    /\ pc = "exited" /\ exit_code = "0" /\ c = "-1"
    /\ AllOff
    /\ ~handlers /\ ~curses /\ endwins = 0

\* C4 (as claimed): a resize handled after the test of line 428 is dealt
\* with in the next iteration, so whenever rows are drawn and no resize was
\* handled since the last test of line 428, the bar width in use is the one
\* of the terminal's present width.
C4_ResizeSeenNextTick ==
    (pc = "row" /\ ~winch_since /\ should_resize = 0) =>
        bar_width = tty_cols - text_len - hpad

\* C5 (as claimed): the test at the head of the loop leaves
\* should_close cleared.
C5_BothFlagsCleared == [][ While => should_close' = 0 ]_vars

\* C5 (amended): main reads should_close once per iteration, at line 427,
\* and never writes it; it reads should_resize once per iteration, at line
\* 428, and writes it only at line 430, storing 0, in the iterations that
\* found it set; every other change of a flag is the handler setting it.
C5_FlagAccess ==
    [][ /\ (should_close' # should_close) => (should_close' = 1 /\ pc' = pc)
        /\ (should_resize' # should_resize) =>
              \/ should_resize' = 1 /\ pc' = pc
              \/ pc = "clear_flag" /\ pc' = "bar_width" /\ should_resize' = 0
        /\ While => ((pc' = "endwin") <=> (should_close # 0))
        /\ IfResize => ((pc' = "ioctl") <=> (should_resize # 0))
        /\ (pc' = "clear_flag" /\ pc # "clear_flag") => pc = "draw_labels"
        /\ (pc' = "ioctl" /\ pc # "ioctl") => (pc = "if_resize" /\ should_resize # 0)
      ]_vars

C5_Witness ==
    /\ pc = "bar_width" /\ row > 0 /\ drawn = NoDraw
    /\ should_resize = 0
    /\ should_close = 1

\* C6: SIGINT and SIGTERM set should_close and leave should_resize alone,
\* SIGWINCH sets should_resize and leaves should_close alone, the handler
\* clears neither flag and changes nothing else of the program, wherever
\* main is.
C6_FlagsIndependent ==
    [][ \A sig \in Signals :
          Deliver(sig) =>
            /\ (sig \in {"SIGINT", "SIGTERM"}) =>
                  (should_close' = 1 /\ should_resize' = should_resize)
            /\ (sig = "SIGWINCH") =>
                  (should_resize' = 1 /\ should_close' = should_close)
            /\ should_close' >= should_close
            /\ should_resize' >= should_resize
            /\ UNCHANGED << pc, exit_code, cfg_vars, scr_vars, loop_vars, env_vars >>
      ]_vars

C6_Witness ==
    /\ pc = "row" /\ k = 3
    /\ should_close = 1
    /\ should_resize = 0

----------------------------------------------------------------------------
(* The draw_bar claims, checked under Spec *)

BarDrawn == drawn.kind \in 0 .. 6

Track == drawn.width - (2 + Len(drawn.str))

\* the number of bar glyphs written
RECURSIVE BarGlyphs(_)
BarGlyphs(calls) ==
    IF calls = << >> THEN 0
    ELSE (IF Head(calls).f = "addstr"
          THEN Cardinality({ i \in 1 .. Len(Head(calls).s) : Head(calls).s[i] = "|" })
          ELSE 0) + BarGlyphs(Tail(calls))

\* every cursor move goes to a column of lo .. hi - 1 and every character
\* written, at the column the moves and the writes before it put the cursor
\* on, lies there too
RECURSIVE Inside(_, _, _, _)
Inside(calls, cur, lo, hi) ==
    IF calls = << >> THEN TRUE
    ELSE LET h == Head(calls)
         IN  CASE h.f = "move" ->
                      /\ lo <= h.x /\ h.x < hi
                      /\ Inside(Tail(calls), h.x, lo, hi)
               [] h.f = "addstr" ->
                      /\ (Len(h.s) > 0) => (lo <= cur /\ cur + Len(h.s) - 1 < hi)
                      /\ Inside(Tail(calls), cur + Len(h.s), lo, hi)
               [] OTHER -> Inside(Tail(calls), cur, lo, hi)

\* C9 (as claimed): when the label leaves a negative track width, draw_bar
\* clears the row and makes no further call.
C9_NegativeTrackDrawsNothing ==
    (BarDrawn /\ Track < 0) =>
        drawn.calls = << Move(drawn.row, text_len), ClrToEol >>

\* C10 (as claimed): when the brackets and the label need at least the
\* whole width, draw_bar writes no bar glyph and moves and writes only
\* within the columns col .. col + width - 1.
C10_NoWriteOutsideBar ==
    (BarDrawn /\ 2 + Len(drawn.str) >= drawn.width) =>
        /\ BarGlyphs(drawn.calls) = 0
        /\ Inside(drawn.calls, text_len, text_len, text_len + drawn.width)

----------------------------------------------------------------------------
(* The bar claims, checked under SpecQuiet *)

\* the last row drawn is a bar whose raw fraction is a number: negative,
\* within 0 .. 1 or above 1, the infinities included
NumberBar == BarDrawn /\ ~(drawn.frac.d = 0 /\ drawn.frac.n = 0)

\* C11: for a raw fraction f that is a number and a track width t >= 0,
\* draw_bar writes no glyph when f <= 0, t glyphs when f >= 1 and otherwise
\* the largest g with g <= t * f, so 0 <= g <= t; the label is written right
\* after a move to column col + t + 1, and the closing bracket after it.
C11_ClampedFloorGlyphs ==
    (NumberBar /\ Track >= 0) =>
        LET f == drawn.frac
            g == BarGlyphs(drawn.calls)
        IN  /\ 0 <= g /\ g <= Track
            /\ (f.n <= 0) => g = 0
            /\ (f.n > 0 /\ (f.d = 0 \/ f.n >= f.d)) => g = Track
            /\ (f.n > 0 /\ f.n < f.d) =>
                  (g * f.d <= Track * f.n /\ Track * f.n < (g + 1) * f.d)
            /\ Len(drawn.calls) = 7
            /\ drawn.calls[4].f = "addstr" /\ Len(drawn.calls[4].s) = g
            /\ drawn.calls[5] = Move(drawn.row, text_len + Track + 1)
            /\ drawn.calls[6].f = "addstr" /\ drawn.calls[6].s = drawn.str
            /\ drawn.calls[7].f = "addstr" /\ drawn.calls[7].s = << "]" >>

\* vram 1 MiB of 4 MiB on a 40-column terminal: 3 glyphs on a track of 15
C11_Witness ==
    /\ drawn.kind = 1 /\ drawn.frac = [n |-> 1, d |-> 4]
    /\ Track = 15
    /\ BarGlyphs(drawn.calls) = 3

\* a bar with its brackets, glyphs and label was written
WholeBar == BarDrawn /\ Len(drawn.calls) = 7

\* the raw fraction of the last row, as a number, is below num / 100 once
\* clamped to 0 .. 1 (num in 1 .. 100)
ClampedBelow(num) ==
    LET f == drawn.frac
    IN  /\ ~(f.d = 0 /\ f.n = 0)
        /\ \/ f.n <= 0
           \/ f.d > 0 /\ f.n < f.d /\ 100 * f.n < num * f.d

\* the band the claim gives the last row
Band ==
    IF ClampedBelow(33) THEN "ok"
    ELSE IF ClampedBelow(67) THEN "warn"
    ELSE "bad"

Half == [n |-> 1, d |-> 2]
Fraction033 == [n |-> 33, d |-> 100]
Text512of1024 == << "5","1","2","/","1","0","2","4","M","i","B" >>
Text33W == << "3","3","W" >>

\* C12: the glyphs of a bar are written in the band of its clamped
\* fraction (when colours are in use): ok below 0.33, warn from 0.33 to
\* below 0.67, bad otherwise; vram 512 MiB used of 1024 MiB gives the
\* fraction 0.5, the text "512/1024MiB" and warn; power 33000000 between
\* the caps 0 and 100000000 gives the fraction 0.33, "33W" and warn (the
\* band of a bar that is written at all).
C12_ColourBands ==
    /\ []( WholeBar =>
              /\ drawn.calls[4].f = "addstr"
              /\ drawn.calls[4].color = (IF use_color THEN Band ELSE "none") )
    /\ [][ ( /\ BarRow(1, vram(to_string(512 * MiB), dev))
             /\ enabled_rows[1]
             /\ dev.m_vram = 1024 * MiB ) =>
               /\ drawn'.frac = Half
               /\ drawn'.str = Text512of1024
               /\ (Len(drawn'.calls) = 7) =>
                     drawn'.calls[4].color = (IF use_color THEN "warn" ELSE "none")
          ]_vars
    /\ [][ ( /\ BarRow(4, power(to_string(33000000), dev))
             /\ enabled_rows[4]
             /\ dev.m_power_min = 0 /\ dev.m_power_max = 100000000 ) =>
               /\ drawn'.frac = Fraction033
               /\ drawn'.str = Text33W
               /\ (Len(drawn'.calls) = 7) =>
                     drawn'.calls[4].color = (IF use_color THEN "warn" ELSE "none")
          ]_vars

C12_Witness ==
    /\ drawn.kind = 4 /\ drawn.frac = Fraction033 /\ drawn.str = Text33W
    /\ dev.m_power_min = 0 /\ dev.m_power_max = 100000000
    /\ use_color
    /\ WholeBar /\ drawn.calls[4].color = "warn"

\* C13 (as claimed): for caps min < max the fraction of the power row is
\* (p - min) / (max - min) as a signed quantity, and a reading p < min
\* draws an empty bar in the band ok.
C13_PowerFractionSigned ==
    [][ \A f \in LivePower :
          ( /\ BarRow(4, power(f, dev))
            /\ enabled_rows[4]
            /\ stoull(read_file(f)).ok
            /\ dev.m_power_min < dev.m_power_max ) =>
              LET p == stoull(read_file(f)).val
              IN  /\ drawn'.frac = FDiv(p - dev.m_power_min,
                                        dev.m_power_max - dev.m_power_min)
                  /\ (p < dev.m_power_min) =>
                        /\ BarGlyphs(drawn'.calls) = 0
                        /\ (Len(drawn'.calls) = 7 /\ use_color) =>
                              drawn'.calls[4].color = "ok"
      ]_vars

\* the fraction of the last row is the result of a division by zero
DividedByZero == BarDrawn /\ drawn.frac.d = 0

\* C14 (as claimed): a row whose fraction was computed by a division by
\* zero, 0/0 or positive/0, is drawn with no bar glyph.
C14_DivisionByZeroDrawsEmpty == DividedByZero => BarGlyphs(drawn.calls) = 0

----------------------------------------------------------------------------
(* The layout claim, checked under Spec *)

\* the number of enabled kinds before kind i in display order
EnabledBefore(i) == Cardinality({ j \in Kinds : j < i /\ enabled_rows[j] })

\* every enabled kind has its label on the row of its rank among the
\* enabled kinds, and a disabled kind has none
LabelsDense ==
    \A i \in Kinds :
        labels[i] = IF enabled_rows[i] THEN vpad + EnabledBefore(i) ELSE 0

\* C15: in a tick the cursor row before the statement of kind k is
\* vpad - 1 plus the number of enabled kinds before k, so the k-th enabled
\* kind is drawn on row vpad + k - 1 and a disabled kind takes no row; the
\* row a kind is drawn on is the row of its label, which draw_labels put
\* there at startup and puts there again in every resize handling.
C15_DenseRowsMatchLabels ==
    /\ (pc = "row") => (row = vpad - 1 + EnabledBefore(k))
    /\ (pc = "refresh") => (row = vpad - 1 + EnabledBefore(row_count))
    /\ (drawn.kind \in Kinds) =>
          /\ enabled_rows[drawn.kind]
          /\ drawn.row = vpad + EnabledBefore(drawn.kind)
          /\ drawn.row = labels[drawn.kind]
          /\ drawn.calls[1] = Move(drawn.row, text_len)
    /\ (curses /\ pc # "draw_labels") => LabelsDense
    /\ (pc = "clear_flag") => (LabelsDense /\ drawn = NoDraw)

\* busy and fan disabled: voltage, the sixth enabled kind, is drawn on row
\* 6, where its label is
C15_Witness ==
    /\ { i \in Kinds : ~enabled_rows[i] } = {0, 6}
    /\ pc = "row" /\ k = 8
    /\ drawn.kind = 7 /\ drawn.row = vpad + 5
    /\ labels[7] = vpad + 5
    /\ row = vpad + 5

----------------------------------------------------------------------------
(* The loop's control flow, checked under Spec *)

QuitKeys == { 113, end_of_transmission, escape }

\* the statements of the loop
LoopPcs == { "while", "if_resize", "ioctl", "resizeterm", "clear",
             "draw_labels", "clear_flag", "bar_width", "row", "refresh",
             "getch", "key" }

\* C16: control reaches the statement after the loop only from the loop
\* head with should_close set or from the key test with a quit key; the
\* wait ends at the key test, with ERR after a timeout or an interrupted
\* wait; a key test that finds no quit key goes to the loop head, which
\* starts another iteration unless should_close is set.  (The process can
\* also end inside the loop: a fetch that meets malformed content aborts.)
C16_LoopExits ==
    [][ /\ (pc' = "endwin" /\ pc # "endwin") =>
              \/ pc = "while" /\ should_close # 0
              \/ pc = "key" /\ key \in QuitKeys
        /\ (pc = "getch" /\ pc' # pc) => pc' = "key"
        /\ (GetchTimeout \/ GetchInterrupted) => (key' = ERR /\ key' \notin QuitKeys)
        /\ (pc = "key" /\ pc' # pc) =>
              pc' = (IF key \in QuitKeys THEN "endwin" ELSE "while")
        /\ (pc = "while" /\ pc' # pc) =>
              pc' = (IF should_close # 0 THEN "endwin" ELSE "if_resize")
        /\ (pc \in LoopPcs /\ pc' \notin LoopPcs /\ pc' # "endwin") =>
              (pc = "row" /\ pc' = "exited" /\ exit_code' = "abort")
      ]_vars

\* a second iteration was entered after a wait during which only SIGWINCH
\* was handled
C16_Witness ==
    /\ pc = "if_resize" /\ row > 0
    /\ intr = {"SIGWINCH"}
    /\ should_close = 0
    /\ key = ERR

\* the statement that follows in an iteration, given the flag test of line
\* 428 and the row counter
NextInTick ==
    CASE pc = "if_resize"   -> IF should_resize # 0 THEN "ioctl" ELSE "bar_width"
      [] pc = "ioctl"       -> "resizeterm"
      [] pc = "resizeterm"  -> "clear"
      [] pc = "clear"       -> "draw_labels"
      [] pc = "draw_labels" -> "clear_flag"
      [] pc = "clear_flag"  -> "bar_width"
      [] pc = "bar_width"   -> "row"
      [] pc = "row"         -> IF k = row_count - 1 THEN "refresh" ELSE "row"
      [] pc = "refresh"     -> "getch"
      [] pc = "getch"       -> "key"
      [] OTHER              -> pc

InTick == pc \in (LoopPcs \ {"while", "key"})

\* C17: after the test of should_close an iteration runs, in this order,
\* the resize handling if should_resize is set, the statements of the 12
\* kinds in display order, each once, drawing the kind if and only if it is
\* enabled, refresh() and getch(); a signal handled meanwhile changes the
\* flags only, and should_close is not looked at before the next loop head.
\* (A fetch that meets malformed content aborts the process where it is.)
C17_IterationOrder ==
    [][ /\ (InTick /\ pc' # pc) =>
              \/ pc' = NextInTick
              \/ pc = "row" /\ pc' = "exited" /\ exit_code' = "abort"
        /\ (pc = "bar_width" /\ pc' # pc) => (k' = 0 /\ row' = vpad - 1)
        /\ (pc = "row" /\ k' # k) =>
              /\ k' = k + 1
              /\ pc' = NextInTick
              /\ IF enabled_rows[k]
                 THEN drawn'.kind = k /\ row' = row + 1
                 ELSE drawn' = drawn /\ row' = row
        /\ (pc = "row" /\ k' = k) => (pc' \in {"row", "exited"} /\ drawn' = drawn)
        /\ (pc # "row") => (k' = k \/ pc = "bar_width")
        /\ (pc # "row" /\ pc # "clear") => drawn' = drawn \/ pc = "initscr"
        /\ (pc' = "getch" /\ pc # "getch") => (pc = "refresh" /\ k = row_count)
        /\ (pc' = "refresh" /\ pc # "refresh") => (pc = "row" /\ k = row_count - 1)
        /\ (InTick /\ pc' = pc /\ k' = k) =>
              UNCHANGED << cfg_vars, scr_vars, loop_vars, fs, dev, handlers, exit_code >>
      ]_vars

\* SIGINT or SIGTERM was handled after the test of line 427 and before
\* refresh(); the iteration drew its last row and is in the wait
C17_Witness ==
    /\ pc = "getch" /\ intr = {}
    /\ should_close = 1
    /\ drawn.kind = row_count - 1
    /\ k = row_count

----------------------------------------------------------------------------
(* The resize notification, checked under Spec *)

\* C18 (as claimed): no resize notification is lost: as long as a SIGWINCH
\* was handled and no dimension query was made after it, should_resize is
\* still set, so that the next test of line 428 leads to a query and a
\* relabel, unless the process has ended.
C18_NoResizeLost ==
    (winch_unseen /\ pc # "exited") => should_resize = 1

----------------------------------------------------------------------------
(* Termination, checked under Spec *)

\* C19 (as claimed): for every interval given with -u, once should_close is
\* set the loop exits without a key being typed: whenever main is in the
\* wait with should_close set, the wait can end by its timeout or by an
\* interruption, no key being needed.
C19_ExitsWithoutKey ==
    (pc = "getch" /\ should_close = 1) =>
        ENABLED (GetchTimeout \/ GetchInterrupted)

====
